---- MODULE Spec2Model ----
(***************************************************************************)
(* Smart Traffic Signal Management System.                                 *)
(*                                                                         *)
(* The store (models.py) holds the signals table and the history table.    *)
(* Every store call opens its own connection and commits on its own, so a  *)
(* store call is one atomic step; a handler is a sequence of such steps.   *)
(* The background ticker thread (app.py) runs concurrently with the        *)
(* request handlers (routes.py): the model interleaves the store calls of  *)
(* the ticker with those of one request at a time.  Columns that no timing *)
(* rule reads (name, location, lat, lng, timestamp) are left out.          *)
(***************************************************************************)
EXTENDS Integers, Sequences, FiniteSets, TLC

\* ---------------------------------------------------------------- bounds
NumSeed == 2          \* signals seeded at start-up (the program seeds six)
MaxSignals == 3       \* ids ever handed out by AUTOINCREMENT
MaxRequests == 1      \* API requests started in one behaviour
MaxHistory == 4       \* rows of the history table
MaxPasses == 2        \* passes of the ticker in one behaviour
MaxEarly == 2         \* passes before the end of the first cycle a behaviour may start
MaxCount == 80        \* largest vehicle count given to the timing policy
MaxGreen == 100       \* largest green time given to the timing policy

\* ------------------------------------------------------- program constants
TICK_INTERVAL == 3
EMERGENCY_COUNTDOWN == 999
DEFAULT_VEHICLE_COUNT == 0
DEFAULT_GREEN_TIME == 25
DEFAULT_COUNTDOWN == 25
RANDOM_LOW == 1
RANDOM_HIGH == 80

\* Python's None for an absent JSON field, and a present value.
None == << >>
Some(v) == << v >>

\* ------------------------------------------------------- traffic_logic.py
\* Mutant of calculate_green_time: the lower threshold is exclusive.
calculate_green_time_above(vehicle_count) ==
  IF vehicle_count > 40 THEN 70
  ELSE IF vehicle_count > 20 THEN 45
  ELSE 25

calculate_green_time(vehicle_count) ==
  IF vehicle_count > 40 THEN 70
  ELSE IF vehicle_count >= 20 THEN 45
  ELSE 25

classify_density(vehicle_count) ==
  IF vehicle_count > 40 THEN "High"
  ELSE IF vehicle_count >= 20 THEN "Medium"
  ELSE "Low"

\* Mutant of determine_phase: yellow lasts two seconds.
determine_phase_short_yellow(countdown, green_time) ==
  IF countdown > 8 THEN "green"
  ELSE IF countdown > 6 THEN "yellow"
  ELSE "red"

determine_phase(countdown, green_time) ==
  IF countdown > 8 THEN "green"
  ELSE IF countdown > 3 THEN "yellow"
  ELSE "red"

get_cycle_length(green_time) == green_time + 10

Min(a, b) == IF a <= b THEN a ELSE b
Max(a, b) == IF a >= b THEN a ELSE b

\* Mutant of calculate_efficiency: the timing score is rounded to the nearest
\* integer, as round(ratio * 100) would.
calculate_efficiency_rounded(vehicle_count, green_time, current_phase) ==
  LET ideal_gt == calculate_green_time(vehicle_count)
      timing_score ==
        IF ideal_gt = 0 THEN 100
        ELSE (Min(green_time, ideal_gt) * 200 + Max(green_time, ideal_gt))
               \div (2 * Max(green_time, ideal_gt))
      phase_bonus ==
        IF vehicle_count > 40 /\ current_phase = "green" THEN 10
        ELSE IF vehicle_count < 10 /\ current_phase = "red" THEN 5
        ELSE 0
      throughput_penalty ==
        IF vehicle_count > 50 /\ green_time < 45 THEN 20
        ELSE IF vehicle_count > 30 /\ green_time < 25 THEN 15
        ELSE 0
  IN Max(0, Min(100, timing_score + phase_bonus - throughput_penalty))

\* lines 65-98. int(ratio * 100) drops the fraction of the product; for the
\* green times of the model (two positive integers up to a few hundred) the
\* double product min / max * 100 has the integer part of the exact quotient
\* 100 * min / max, which is the integer division below.
calculate_efficiency(vehicle_count, green_time, current_phase) ==
  LET ideal_gt == calculate_green_time(vehicle_count)
      timing_score ==
        IF ideal_gt = 0 THEN 100
        ELSE (Min(green_time, ideal_gt) * 100) \div Max(green_time, ideal_gt)
      phase_bonus ==
        IF vehicle_count > 40 /\ current_phase = "green" THEN 10
        ELSE IF vehicle_count < 10 /\ current_phase = "red" THEN 5
        ELSE 0
      throughput_penalty ==
        IF vehicle_count > 50 /\ green_time < 45 THEN 20
        ELSE IF vehicle_count > 30 /\ green_time < 25 THEN 15
        ELSE 0
  IN Max(0, Min(100, timing_score + phase_bonus - throughput_penalty))

\* random.randint(1, 80): the values the model draws, one of each tier of the
\* timing policy: both ends of the range and the lower threshold.
SimulatedCounts == {RANDOM_LOW, 20, RANDOM_HIGH}

simulate_vehicle_count == { v \in SimulatedCounts : RANDOM_LOW <= v /\ v <= RANDOM_HIGH }

\* ---------------------------------------------------------------- state
VARIABLES
  signals,    \* signals table: id -> row
  history,    \* history table, in insertion (id) order
  nextId,     \* next AUTOINCREMENT id of the signals table
  tpc,        \* ticker position: "sleep", "loop", "history"
  tsigs,      \* ticker: rows read by get_all_signals() not yet handled
  tvc,        \* ticker: vehicle count drawn for the rollover in progress
  req,        \* API request in flight
  nreq,       \* API requests started so far
  npass,      \* ticker passes started so far
  last,       \* the store call or handler step taken last
  prior       \* rows as they were before the writes of the operations in progress

vars == << signals, history, nextId, tpc, tsigs, tvc, req, nreq, npass, last, prior >>

Ids == 1..MaxSignals

\* ------------------------------------------------------------- models.py
\* INSERT INTO signals (name, location, lat, lng): the column defaults.
DefaultRow ==
  [ vehicle_count |-> DEFAULT_VEHICLE_COUNT,
    green_time    |-> DEFAULT_GREEN_TIME,
    density       |-> "Low",
    current_phase |-> "green",
    countdown     |-> DEFAULT_COUNTDOWN,
    emergency     |-> FALSE ]

\* dict.update / item assignment: later keys win.
Merge(a, b) ==
  [ k \in DOMAIN a \cup DOMAIN b |-> IF k \in DOMAIN b THEN b[k] ELSE a[k] ]

\* UPDATE signals SET <kwargs> WHERE id = ?  (no row: nothing changes)
update_signal(table, signal_id, kwargs) ==
  IF signal_id \in DOMAIN table
  THEN [ table EXCEPT ![signal_id] =
           [ col \in DOMAIN table[signal_id] |->
               IF col \in DOMAIN kwargs THEN kwargs[col] ELSE table[signal_id][col] ] ]
  ELSE table

\* INSERT INTO history (...)
record_history(log, signal_id, vehicle_count, green_time, density) ==
  Append(log, [ signal_id     |-> signal_id,
                vehicle_count |-> vehicle_count,
                green_time    |-> green_time,
                density       |-> density ])

\* SELECT * FROM signals ORDER BY id, as a sequence of rows with their id.
RECURSIVE RowsFrom(_, _)
RowsFrom(table, i) ==
  IF i > MaxSignals THEN << >>
  ELSE IF i \in DOMAIN table
       THEN << Merge([ id |-> i ], table[i]) >> \o RowsFrom(table, i + 1)
       ELSE RowsFrom(table, i + 1)

get_all_signals(table) == RowsFrom(table, 1)

\* Mutant of delete_signal_history: the snapshots are left to a cascade of
\* the foreign key, which SQLite does not enforce on these connections.
delete_signal_history_by_cascade(log, signal_id) == log

\* DELETE FROM history WHERE signal_id = ?; DELETE FROM signals WHERE id = ?
delete_signal_history(log, signal_id) ==
  SelectSeq(log, LAMBDA h : h.signal_id # signal_id)

delete_signal_row(table, signal_id) ==
  [ i \in DOMAIN table \ {signal_id} |-> table[i] ]

\* ----------------------------------------------------------------- app.py
\* Mutant of NewCycle: the countdown is reset to the green time alone.
NewCycleNoTail(vc) ==
  [ vehicle_count |-> vc,
    green_time    |-> calculate_green_time(vc),
    density       |-> classify_density(vc),
    countdown     |-> calculate_green_time(vc),
    current_phase |-> determine_phase(calculate_green_time(vc), calculate_green_time(vc)) ]

\* lines 43-55: the fields the ticker writes at a cycle boundary.
NewCycle(vc) ==
  [ vehicle_count |-> vc,
    green_time    |-> calculate_green_time(vc),
    density       |-> classify_density(vc),
    countdown     |-> get_cycle_length(calculate_green_time(vc)),
    current_phase |-> determine_phase(get_cycle_length(calculate_green_time(vc)),
                                      calculate_green_time(vc)) ]

\* create_app: seed, then initialise every seeded signal and record it.
SeededRow ==
  [ col \in DOMAIN DefaultRow |->
      CASE col = "green_time"    -> calculate_green_time(DefaultRow.vehicle_count)
        [] col = "density"       -> classify_density(DefaultRow.vehicle_count)
        [] col = "countdown"     -> get_cycle_length(calculate_green_time(DefaultRow.vehicle_count))
        [] col = "current_phase" -> "green"
        [] OTHER                 -> DefaultRow[col] ]

RECURSIVE SeedHistory(_)
SeedHistory(n) ==
  IF n = 0 THEN << >>
  ELSE record_history(SeedHistory(n - 1), n, SeededRow.vehicle_count,
                      SeededRow.green_time, SeededRow.density)

\* No operation has written a row it has yet to record; the row of signal_id
\* as it stands, for the ticker or for the request in flight.
NoPrior == [ ticker |-> None, req |-> None ]
RowOf(table, signal_id) ==
  IF signal_id \in DOMAIN table THEN Some(table[signal_id]) ELSE None

\* No request in flight; the last step taken, with the HTTP status when the
\* step ended a request (0 otherwise).
Idle == [ op |-> "idle", pc |-> "idle" ]
Step(op, id) == [ op |-> op, id |-> id, status |-> 0 ]
Response(op, id, status) == [ op |-> op, id |-> id, status |-> status ]

\* app.py 40, 57-59 on a row: one pass of the ticker over a signal whose
\* countdown does not run out.
TickedRow(row) ==
  [ row EXCEPT !.countdown = row.countdown - TICK_INTERVAL,
               !.current_phase = determine_phase(row.countdown - TICK_INTERVAL, row.green_time) ]

RECURSIVE TickedTimes(_, _)
TickedTimes(row, k) == IF k = 0 THEN row ELSE TickedRow(TickedTimes(row, k - 1))

\* Passes the ticker makes over a seeded signal before its first cycle ends.
FirstCyclePasses == (SeededRow.countdown - 1) \div TICK_INTERVAL

\* The store after create_app and the first k undisturbed passes of the
\* ticker, for the passes that lead up to the end of the first cycle.
Init ==
  /\ \E k \in 0..FirstCyclePasses :
       /\ k >= FirstCyclePasses - MaxEarly
       /\ signals = [ i \in 1..NumSeed |-> TickedTimes(SeededRow, k) ]
  /\ history = SeedHistory(NumSeed)
  /\ nextId = NumSeed + 1
  /\ tpc = "sleep"
  /\ tsigs = << >>
  /\ tvc = 0
  /\ req = Idle
  /\ nreq = 0
  /\ npass = 0
  /\ last = Step("create_app", 0)
  /\ prior = NoPrior

\* Appends a handler has committed itself to and not yet made, and whether the
\* history table has room for one more.
Pending ==
  (IF tpc = "history" THEN 1 ELSE 0)
  + (IF req.op \in {"override", "add"} \/ (req.op = "simulate" /\ req.pc = "record")
     THEN 1 ELSE 0)

Room == Len(history) + Pending < MaxHistory

\* The columns of a row the ticker goes on to read (lines 40, 49, 58).
TickerView(sig) ==
  [ id |-> sig.id, countdown |-> sig.countdown, green_time |-> sig.green_time ]

RECURSIVE TickerViews(_)
TickerViews(rows) ==
  IF rows = << >> THEN << >>
  ELSE << TickerView(Head(rows)) >> \o TickerViews(Tail(rows))

\* The ticker skips emergency signals without touching the store (line 37).
TickerToDo(rows) == TickerViews(SelectSeq(rows, LAMBDA sig : sig.emergency = FALSE))

\* Position of the ticker once the rows in `rest` remain.
TickerAt(rest) == IF rest = << >> THEN "sleep" ELSE "loop"

\* Mutant of Decrement: the countdown is written back as it was read.
DecrementHeld(sig) ==
  [ countdown     |-> sig.countdown,
    current_phase |-> determine_phase(sig.countdown, sig.green_time) ]

\* Mutant of Decrement: the phase is taken from the countdown as read.
DecrementStalePhase(sig) ==
  [ countdown     |-> sig.countdown - TICK_INTERVAL,
    current_phase |-> determine_phase(sig.countdown, sig.green_time) ]

\* lines 40, 58-59: the fields a pass writes while the countdown runs.
Decrement(sig) ==
  [ countdown     |-> sig.countdown - TICK_INTERVAL,
    current_phase |-> determine_phase(sig.countdown - TICK_INTERVAL, sig.green_time) ]

\* line 34: signals = get_all_signals()
TickerRead ==
  /\ tpc = "sleep"
  /\ npass < MaxPasses
  /\ npass' = npass + 1
  /\ tsigs' = TickerToDo(get_all_signals(signals))
  /\ tpc' = TickerAt(TickerToDo(get_all_signals(signals)))
  /\ last' = Step("ticker_read", 0)
  /\ UNCHANGED << signals, history, nextId, tvc, req, nreq, prior >>

\* lines 57-59: the countdown has not run out.
TickerDecrement ==
  /\ tpc = "loop"
  /\ LET sig == Head(tsigs)
         id == Head(tsigs).id
         new_countdown == sig.countdown - TICK_INTERVAL
     IN /\ new_countdown > 0
        /\ signals' = update_signal(signals, id, Decrement(sig))
        /\ last' = Step("ticker_decrement", id)
  /\ tsigs' = Tail(tsigs)
  /\ tpc' = TickerAt(Tail(tsigs))
  /\ UNCHANGED << history, nextId, tvc, req, nreq, npass, prior >>

\* lines 41-55: new cycle, the update_signal call.
TickerRollover ==
  /\ tpc = "loop"
  /\ Room
  /\ LET sig == Head(tsigs)
         id == Head(tsigs).id
     IN /\ sig.countdown - TICK_INTERVAL <= 0
        /\ \E vc \in simulate_vehicle_count :
             /\ signals' = update_signal(signals, id, NewCycle(vc))
             /\ tvc' = vc
        /\ last' = Step("ticker_rollover", id)
  /\ tpc' = "history"
  /\ prior' = [ prior EXCEPT !.ticker = RowOf(signals, Head(tsigs).id) ]
  /\ UNCHANGED << history, nextId, tsigs, req, nreq, npass >>

\* line 56: record_history(sig["id"], vc, gt, density)
TickerRecord ==
  /\ tpc = "history"
  /\ history' = record_history(history, Head(tsigs).id, tvc,
                               calculate_green_time(tvc), classify_density(tvc))
  /\ last' = Step("ticker_record", Head(tsigs).id)
  /\ tsigs' = Tail(tsigs)
  /\ tpc' = TickerAt(Tail(tsigs))
  /\ tvc' = 0
  /\ prior' = [ prior EXCEPT !.ticker = None ]
  /\ UNCHANGED << signals, nextId, req, nreq, npass >>

Ticker == TickerRead \/ TickerDecrement \/ TickerRollover \/ TickerRecord

\* -------------------------------------------------------------- routes.py
\* Values a request body carries for vehicle_count and green_time.
OverrideCounts == {-1, 45}
OverrideGreens == {-5, 60}

NoUpdates == [ col \in {} |-> 0 ]

\* Mutant of OverrideUpdates: a vehicle_count override leaves density out.
OverrideUpdatesNoDensity(vehicle_count, green_time) ==
  LET fromCount ==
        IF vehicle_count # None
        THEN LET vc == vehicle_count[1]
                 gt == calculate_green_time(vc)
             IN [ vehicle_count |-> vc,
                  green_time    |-> gt,
                  countdown     |-> get_cycle_length(gt),
                  current_phase |-> "green" ]
        ELSE NoUpdates
      fromGreen ==
        IF green_time # None
        THEN [ green_time    |-> green_time[1],
               countdown     |-> get_cycle_length(green_time[1]),
               current_phase |-> "green" ]
        ELSE NoUpdates
  IN Merge(fromCount, fromGreen)

\* lines 60-77: the updates dict of override_signal.
OverrideUpdates(vehicle_count, green_time) ==
  LET fromCount ==
        IF vehicle_count # None
        THEN LET vc == vehicle_count[1]
                 gt == calculate_green_time(vc)
             IN [ vehicle_count |-> vc,
                  green_time    |-> gt,
                  density       |-> classify_density(vc),
                  countdown     |-> get_cycle_length(gt),
                  current_phase |-> "green" ]
        ELSE NoUpdates
      fromGreen ==
        IF green_time # None
        THEN [ green_time    |-> green_time[1],
               countdown     |-> get_cycle_length(green_time[1]),
               current_phase |-> "green" ]
        ELSE NoUpdates
  IN Merge(fromCount, fromGreen)

\* lines 48-58: parse the body, look the signal up, build the updates.
OverrideStart ==
  /\ req = Idle
  /\ nreq < MaxRequests
  /\ nreq' = nreq + 1
  /\ \E signal_id \in {None} \cup { Some(i) : i \in Ids },
        vehicle_count \in {None} \cup { Some(v) : v \in OverrideCounts },
        green_time \in {None} \cup { Some(g) : g \in OverrideGreens } :
       IF signal_id = None
       THEN /\ last' = Response("override", 0, 400)
            /\ req' = Idle
       ELSE IF signal_id[1] \notin DOMAIN signals
       THEN /\ last' = Response("override", signal_id[1], 404)
            /\ req' = Idle
       ELSE IF DOMAIN OverrideUpdates(vehicle_count, green_time) = {}
       THEN /\ last' = Response("override", signal_id[1], 200)
            /\ req' = Idle
       ELSE /\ Room
            /\ last' = Step("override_start", signal_id[1])
            /\ req' = [ op |-> "override", pc |-> "update", id |-> signal_id[1],
                        vehicle_count |-> vehicle_count, green_time |-> green_time ]
  /\ UNCHANGED << signals, history, nextId, tpc, tsigs, tvc, npass, prior >>

\* line 80: update_signal(signal_id, **updates)
OverrideUpdate ==
  /\ req.op = "override" /\ req.pc = "update"
  /\ signals' = update_signal(signals, req.id,
                              OverrideUpdates(req.vehicle_count, req.green_time))
  /\ req' = [ req EXCEPT !.pc = "final" ]
  /\ last' = Step("override_update", req.id)
  /\ prior' = [ prior EXCEPT !.req = RowOf(signals, req.id) ]
  /\ UNCHANGED << history, nextId, tpc, tsigs, tvc, nreq, npass >>

\* line 81: final = get_signal(signal_id); subscripting None raises.
OverrideFinal ==
  /\ req.op = "override" /\ req.pc = "final"
  /\ IF req.id \in DOMAIN signals
     THEN /\ req' = [ op |-> "override", pc |-> "record", id |-> req.id,
                      vehicle_count |-> req.vehicle_count, green_time |-> req.green_time,
                      final |-> signals[req.id] ]
          /\ last' = Step("override_final", req.id)
     ELSE /\ req' = Idle
          /\ last' = Response("override", req.id, 500)
  /\ prior' = IF req.id \in DOMAIN signals THEN prior ELSE [ prior EXCEPT !.req = None ]
  /\ UNCHANGED << signals, history, nextId, tpc, tsigs, tvc, nreq, npass >>

\* lines 82-84: record_history(...) of the row read back, then the response.
OverrideRecord ==
  /\ req.op = "override" /\ req.pc = "record"
  /\ history' = record_history(history, req.id, req.final.vehicle_count,
                               req.final.green_time, req.final.density)
  /\ req' = Idle
  /\ last' = Response("override", req.id, 200)
  /\ prior' = [ prior EXCEPT !.req = None ]
  /\ UNCHANGED << signals, nextId, tpc, tsigs, tvc, nreq, npass >>

Override == OverrideStart \/ OverrideUpdate \/ OverrideFinal \/ OverrideRecord

\* lines 96-106: the fields simulate and add_signal_route write.
SimulatedCycle(vc) ==
  [ vehicle_count |-> vc,
    green_time    |-> calculate_green_time(vc),
    density       |-> classify_density(vc),
    countdown     |-> get_cycle_length(calculate_green_time(vc)),
    current_phase |-> "green" ]

RECURSIVE IdsOf(_)
IdsOf(rows) == IF rows = << >> THEN << >> ELSE << Head(rows).id >> \o IdsOf(Tail(rows))

\* lines 92-95: emergency signals are passed over without a store call.
SimulateToDo(rows) == IdsOf(SelectSeq(rows, LAMBDA sig : sig.emergency = FALSE))

\* line 90: signals = get_all_signals()
SimulateStart ==
  /\ req = Idle
  /\ nreq < MaxRequests
  /\ nreq' = nreq + 1
  /\ IF SimulateToDo(get_all_signals(signals)) = << >>
     THEN /\ req' = Idle
          /\ last' = Response("simulate", 0, 200)
     ELSE /\ req' = [ op |-> "simulate", pc |-> "loop",
                      sigs |-> SimulateToDo(get_all_signals(signals)), vc |-> 0 ]
          /\ last' = Step("simulate_start", 0)
  /\ UNCHANGED << signals, history, nextId, tpc, tsigs, tvc, npass, prior >>

\* lines 96-106: draw a count and update the signal.
SimulateUpdate ==
  /\ req.op = "simulate" /\ req.pc = "loop"
  /\ Room
  /\ \E vc \in simulate_vehicle_count :
       /\ signals' = update_signal(signals, Head(req.sigs), SimulatedCycle(vc))
       /\ req' = [ req EXCEPT !.pc = "record", !.vc = vc ]
  /\ last' = Step("simulate_update", Head(req.sigs))
  /\ prior' = [ prior EXCEPT !.req = RowOf(signals, Head(req.sigs)) ]
  /\ UNCHANGED << history, nextId, tpc, tsigs, tvc, nreq, npass >>

\* lines 107-109: record_history(sig["id"], vc, gt, density), next signal.
SimulateRecord ==
  /\ req.op = "simulate" /\ req.pc = "record"
  /\ history' = record_history(history, Head(req.sigs), req.vc,
                               calculate_green_time(req.vc), classify_density(req.vc))
  /\ IF Tail(req.sigs) = << >>
     THEN /\ req' = Idle
          /\ last' = Response("simulate", Head(req.sigs), 200)
     ELSE /\ req' = [ req EXCEPT !.pc = "loop", !.sigs = Tail(req.sigs), !.vc = 0 ]
          /\ last' = Step("simulate_record", Head(req.sigs))
  /\ prior' = [ prior EXCEPT !.req = None ]
  /\ UNCHANGED << signals, nextId, tpc, tsigs, tvc, nreq, npass >>

Simulate == SimulateStart \/ SimulateUpdate \/ SimulateRecord

\* Mutant of EmergencyKwargs: the disable restarts the cycle of the stored
\* green_time instead of recomputing it from the vehicle count.
EmergencyKwargsKeepGreen(enable, sig) ==
  IF enable
  THEN [ emergency     |-> TRUE,
         current_phase |-> "green",
         countdown     |-> EMERGENCY_COUNTDOWN ]
  ELSE [ emergency     |-> FALSE,
         current_phase |-> "green",
         countdown     |-> get_cycle_length(sig.green_time) ]

\* Mutant of EmergencyKwargs: the handler flips the stored flag, as its
\* docstring ("Toggle emergency priority mode") would suggest.
EmergencyKwargsFlip(enable, sig) ==
  IF enable
  THEN [ emergency     |-> ~ sig.emergency,
         current_phase |-> "green",
         countdown     |-> EMERGENCY_COUNTDOWN ]
  ELSE [ emergency     |-> FALSE,
         current_phase |-> "green",
         countdown     |-> get_cycle_length(calculate_green_time(sig.vehicle_count)),
         green_time    |-> calculate_green_time(sig.vehicle_count) ]

\* lines 134-145: the fields toggle_emergency writes, from the row it read.
EmergencyKwargs(enable, sig) ==
  IF enable
  THEN [ emergency     |-> TRUE,
         current_phase |-> "green",
         countdown     |-> EMERGENCY_COUNTDOWN ]
  ELSE [ emergency     |-> FALSE,
         current_phase |-> "green",
         countdown     |-> get_cycle_length(calculate_green_time(sig.vehicle_count)),
         green_time    |-> calculate_green_time(sig.vehicle_count) ]

\* lines 130-147 run without another writer in between: both tables after
\* toggle_emergency on the tables in `store`.
toggle_emergency(store, signal_id, enable) ==
  IF signal_id \notin DOMAIN store.signals THEN store
  ELSE [ signals |-> update_signal(store.signals, signal_id,
                                   EmergencyKwargs(enable, store.signals[signal_id])),
         history |-> store.history ]

\* lines 123-132: parse the body and look the signal up.
EmergencyStart ==
  /\ req = Idle
  /\ nreq < MaxRequests
  /\ nreq' = nreq + 1
  /\ \E signal_id \in {None} \cup { Some(i) : i \in Ids }, enable \in BOOLEAN :
       IF signal_id = None
       THEN /\ last' = Response("emergency", 0, 400)
            /\ req' = Idle
       ELSE IF signal_id[1] \notin DOMAIN signals
       THEN /\ last' = Response("emergency", signal_id[1], 404)
            /\ req' = Idle
       ELSE /\ last' = Step("emergency_start", signal_id[1])
            /\ req' = [ op |-> "emergency", pc |-> "update", id |-> signal_id[1],
                        enable |-> enable,
                        sig |-> signals[signal_id[1]] ]
  /\ UNCHANGED << signals, history, nextId, tpc, tsigs, tvc, npass, prior >>

\* Mutant of EmergencyUpdate: the toggle records a snapshot of the signal, as
\* every other writing handler does.
EmergencyUpdateRecords ==
  /\ req.op = "emergency" /\ req.pc = "update"
  /\ signals' = update_signal(signals, req.id, EmergencyKwargs(req.enable, req.sig))
  /\ history' = record_history(history, req.id, req.sig.vehicle_count,
                               req.sig.green_time, req.sig.density)
  /\ req' = Idle
  /\ last' = Response(IF req.enable THEN "emergency_on" ELSE "emergency_off", req.id, 200)
  /\ UNCHANGED << nextId, tpc, tsigs, tvc, nreq, npass, prior >>

\* lines 134-147: the update_signal call, then the response.
EmergencyUpdate ==
  /\ req.op = "emergency" /\ req.pc = "update"
  /\ signals' = update_signal(signals, req.id, EmergencyKwargs(req.enable, req.sig))
  /\ req' = Idle
  /\ last' = Response(IF req.enable THEN "emergency_on" ELSE "emergency_off", req.id, 200)
  /\ UNCHANGED << history, nextId, tpc, tsigs, tvc, nreq, npass, prior >>

Emergency == EmergencyStart \/ EmergencyUpdate

\* Mutant of DeleteSignal: the handler does not look at what delete_signal
\* returns and answers success whether or not the row was there.
DeleteSignalUnchecked ==
  /\ req = Idle
  /\ nreq < MaxRequests
  /\ nreq' = nreq + 1
  /\ \E signal_id \in Ids :
       /\ history' = delete_signal_history(history, signal_id)
       /\ signals' = delete_signal_row(signals, signal_id)
       /\ last' = Response("delete", signal_id, 200)
  /\ UNCHANGED << nextId, tpc, tsigs, tvc, req, npass, prior >>

\* lines 231-237 and models.py 121-132: one connection, one commit.
DeleteSignal ==
  /\ req = Idle
  /\ nreq < MaxRequests
  /\ nreq' = nreq + 1
  /\ \E signal_id \in Ids :
       IF signal_id \in DOMAIN signals
       THEN /\ history' = delete_signal_history(history, signal_id)
            /\ signals' = delete_signal_row(signals, signal_id)
            /\ last' = Response("delete", signal_id, 200)
       ELSE /\ last' = Response("delete", signal_id, 404)
            /\ UNCHANGED << signals, history >>
  /\ UNCHANGED << nextId, tpc, tsigs, tvc, req, npass, prior >>

\* line 211 and models.py 108-118: INSERT with the column defaults.
AddInsert ==
  /\ req = Idle
  /\ nreq < MaxRequests
  /\ nextId <= MaxSignals
  /\ Room
  /\ nreq' = nreq + 1
  /\ signals' = [ i \in DOMAIN signals \cup {nextId} |->
                    IF i = nextId THEN DefaultRow ELSE signals[i] ]
  /\ nextId' = nextId + 1
  /\ req' = [ op |-> "add", pc |-> "update", id |-> nextId, vc |-> 0 ]
  /\ last' = Step("add_insert", nextId)
  /\ UNCHANGED << history, tpc, tsigs, tvc, npass, prior >>

\* lines 215-225: draw a count and initialise the new signal.
AddUpdate ==
  /\ req.op = "add" /\ req.pc = "update"
  /\ \E vc \in simulate_vehicle_count :
       /\ signals' = update_signal(signals, req.id, SimulatedCycle(vc))
       /\ req' = [ req EXCEPT !.pc = "record", !.vc = vc ]
  /\ last' = Step("add_update", req.id)
  /\ UNCHANGED << history, nextId, tpc, tsigs, tvc, nreq, npass, prior >>

\* lines 226-228: record_history(new_id, vc, gt, density), then the response.
AddRecord ==
  /\ req.op = "add" /\ req.pc = "record"
  /\ history' = record_history(history, req.id, req.vc,
                               calculate_green_time(req.vc), classify_density(req.vc))
  /\ req' = Idle
  /\ last' = Response("add", req.id, 201)
  /\ UNCHANGED << signals, nextId, tpc, tsigs, tvc, nreq, npass, prior >>

AddSignal == AddInsert \/ AddUpdate \/ AddRecord

Next == Ticker \/ Override \/ Simulate \/ Emergency \/ DeleteSignal \/ AddSignal

Spec == Init /\ [][Next]_vars

\* ----------------------------------------------------- store calls that raise
\* sqlite3 raises from execute() or commit() (a locked or unreadable database
\* file); nothing of the call that raised is committed, and what the calls
\* before it committed stays.

\* app.py 33-34, 60-61: get_all_signals() raises; the pass visits no signal.
TickerReadFails ==
  /\ tpc = "sleep"
  /\ npass < MaxPasses
  /\ npass' = npass + 1
  /\ last' = Step("ticker_error", 0)
  /\ UNCHANGED << signals, history, nextId, tpc, tsigs, tvc, req, nreq, prior >>

\* app.py 48, 59, 60-61: update_signal raises; the except clause is outside
\* the for loop, so the ticker prints the error and sleeps again.
TickerUpdateFails ==
  /\ tpc = "loop"
  /\ tpc' = "sleep"
  /\ tsigs' = << >>
  /\ last' = Step("ticker_error", Head(tsigs).id)
  /\ UNCHANGED << signals, history, nextId, tvc, req, nreq, npass, prior >>

\* app.py 56, 60-61: record_history raises after the update was committed.
TickerRecordFails ==
  /\ tpc = "history"
  /\ tpc' = "sleep"
  /\ tsigs' = << >>
  /\ tvc' = 0
  /\ prior' = [ prior EXCEPT !.ticker = None ]
  /\ last' = Step("ticker_error", Head(tsigs).id)
  /\ UNCHANGED << signals, history, nextId, req, nreq, npass >>

\* routes.py 53, 90, 130, 211, 234: the first store call of a handler raises;
\* Flask answers 500.
HandlerFailsAtStart ==
  /\ req = Idle
  /\ nreq < MaxRequests
  /\ nreq' = nreq + 1
  /\ last' = Response("error", 0, 500)
  /\ UNCHANGED << signals, history, nextId, tpc, tsigs, tvc, req, npass, prior >>

\* The signal the request in flight is working on.
SignalOf(r) == IF r.op = "simulate" THEN Head(r.sigs) ELSE r.id

\* routes.py 80-82, 98-108, 135-145, 218-227: a later store call of the
\* handler raises; Flask answers 500 and the handler runs no further.
HandlerFails ==
  /\ req # Idle
  /\ req' = Idle
  /\ prior' = [ prior EXCEPT !.req = None ]
  /\ last' = Response(req.op, SignalOf(req), 500)
  /\ UNCHANGED << signals, history, nextId, tpc, tsigs, tvc, nreq, npass >>

StoreFails ==
  TickerReadFails \/ TickerUpdateFails \/ TickerRecordFails
    \/ HandlerFailsAtStart \/ HandlerFails

NextFail == Next \/ StoreFails

\* The program with a store whose calls may raise.
SpecFail == Init /\ [][NextFail]_vars

\* ------------------------------------------- the timing policy on its inputs
\* The store after create_app with one signal, and an override of its
\* vehicle count to v taken up (routes.py 48-58), for every v of the range.
InitTiers ==
  /\ signals = [ i \in {1} |-> SeededRow ]
  /\ history = SeedHistory(1)
  /\ nextId = 2
  /\ tpc = "sleep"
  /\ tsigs = << >>
  /\ tvc = 0
  /\ \E v \in 0..MaxCount :
       req = [ op |-> "override", pc |-> "update", id |-> 1,
               vehicle_count |-> Some(v), green_time |-> None ]
  /\ nreq = 1
  /\ npass = 0
  /\ last = Step("override_start", 1)
  /\ prior = NoPrior

\* routes.py 60-84: the handler from its update_signal call on.
NextTiers == OverrideUpdate \/ OverrideFinal \/ OverrideRecord

SpecTiers == InitTiers /\ [][NextTiers]_vars

Phases == {"green", "yellow", "red"}

\* The countdowns a signal of green time g shows at the start of its cycle
\* and, ticking down from there, in its last eight seconds.
CountdownsOf(g) ==
  { c \in 1..get_cycle_length(g) :
      /\ (get_cycle_length(g) - c) % TICK_INTERVAL = 0
      /\ c = get_cycle_length(g) \/ c <= 8 }

\* A store holding one signal after an override of its vehicle count to v
\* and one of its green time to g, at one of these countdowns, and no
\* request in flight.
InitEfficiency ==
  /\ \E v \in 0..MaxCount, g \in 1..MaxGreen :
       \E c \in CountdownsOf(g) :
         signals = [ i \in {1} |->
                       [ SeededRow EXCEPT !.vehicle_count = v,
                                          !.density = classify_density(v),
                                          !.green_time = g,
                                          !.countdown = c,
                                          !.current_phase = determine_phase(c, g) ] ]
  /\ history = record_history(
                 record_history(SeedHistory(1), 1, signals[1].vehicle_count,
                                calculate_green_time(signals[1].vehicle_count),
                                signals[1].density),
                 1, signals[1].vehicle_count, signals[1].green_time, signals[1].density)
  /\ nextId = 2
  /\ tpc = "sleep"
  /\ tsigs = << >>
  /\ tvc = 0
  /\ req = Idle
  /\ nreq = 0
  /\ npass = 0
  /\ last = IF signals[1].countdown = get_cycle_length(signals[1].green_time)
            THEN Response("override", 1, 200)
            ELSE Step("ticker_decrement", 1)
  /\ prior = NoPrior

\* The response of GET /signal/<id>: the efficiency the handler adds to the row.
Scored(id, efficiency) ==
  [ op |-> "one_signal", id |-> id, status |-> 200, efficiency |-> efficiency ]

\* routes.py 31-40: one_signal reads the row and computes its efficiency.
OneSignal ==
  /\ req = Idle
  /\ nreq < MaxRequests
  /\ nreq' = nreq + 1
  /\ \E signal_id \in Ids :
       IF signal_id \in DOMAIN signals
       THEN last' = Scored(signal_id,
                           calculate_efficiency(signals[signal_id].vehicle_count,
                                                signals[signal_id].green_time,
                                                signals[signal_id].current_phase))
       ELSE last' = Response("one_signal", signal_id, 404)
  /\ UNCHANGED << signals, history, nextId, tpc, tsigs, tvc, req, npass, prior >>

NextEfficiency == OneSignal

SpecEfficiency == InitEfficiency /\ [][NextEfficiency]_vars

\* ------------------------------------------------- the ticker on one signal
\* The store after create_app with one signal and an override of its green
\* time to g (routes.py 67-84), for every g of the range; nothing in flight.
InitCycle ==
  /\ \E g \in 1..MaxGreen :
       /\ signals = update_signal([ i \in {1} |-> SeededRow ], 1,
                                  OverrideUpdates(None, Some(g)))
       /\ history = record_history(SeedHistory(1), 1, SeededRow.vehicle_count,
                                   g, SeededRow.density)
  /\ nextId = 2
  /\ tpc = "sleep"
  /\ tsigs = << >>
  /\ tvc = 0
  /\ req = Idle
  /\ nreq = 0
  /\ npass = 0
  /\ last = Response("override", 1, 200)
  /\ prior = NoPrior

\* app.py 31-34: the next pass of the ticker, however many came before.
CycleRead ==
  /\ tpc = "sleep"
  /\ tsigs' = TickerToDo(get_all_signals(signals))
  /\ tpc' = TickerAt(TickerToDo(get_all_signals(signals)))
  /\ last' = Step("ticker_read", 0)
  /\ UNCHANGED << signals, history, nextId, tvc, req, nreq, npass, prior >>

\* app.py 31-59 with no request arriving.
NextCycle == CycleRead \/ TickerDecrement \/ TickerRollover \/ TickerRecord

SpecCycle == InitCycle /\ [][NextCycle]_vars

\* --------------------------------------- the program with no end to its run
\* The ticker loops for as long as the process lives and clients may send
\* overrides for as long; the history table grows with both. SpecLive follows
\* the table by its newest row and counts neither passes nor requests.
Newest(log) == IF log = << >> THEN log ELSE << log[Len(log)] >>

\* The store after create_app with the signals of LiveIds.
LiveIds == {1}

InitLive ==
  /\ signals = [ i \in LiveIds |-> SeededRow ]
  /\ history = Newest(SeedHistory(1))
  /\ nextId = 2
  /\ tpc = "sleep"
  /\ tsigs = << >>
  /\ tvc = 0
  /\ req = Idle
  /\ nreq = 0
  /\ npass = 0
  /\ last = Step("create_app", 0)
  /\ prior = NoPrior

\* app.py 56: record_history(sig["id"], vc, gt, density)
LiveTickerRecord ==
  /\ tpc = "history"
  /\ history' = Newest(record_history(history, Head(tsigs).id, tvc,
                                      calculate_green_time(tvc), classify_density(tvc)))
  /\ last' = Step("ticker_record", Head(tsigs).id)
  /\ tsigs' = Tail(tsigs)
  /\ tpc' = TickerAt(Tail(tsigs))
  /\ tvc' = 0
  /\ prior' = [ prior EXCEPT !.ticker = None ]
  /\ UNCHANGED << signals, nextId, req, nreq, npass >>

\* app.py 33-34, 60-61: get_all_signals() raises; the pass visits no signal.
CycleReadFails ==
  /\ tpc = "sleep"
  /\ last' = Step("ticker_error", 0)
  /\ UNCHANGED << signals, history, nextId, tpc, tsigs, tvc, req, nreq, npass, prior >>

\* app.py 31-61: a step of the ticker thread, its store call returning or
\* raising.
LiveTicker ==
  \/ CycleRead \/ TickerDecrement \/ TickerRollover \/ LiveTickerRecord
  \/ CycleReadFails \/ TickerUpdateFails \/ TickerRecordFails

\* The requests of SpecLive name a signal of LiveIds, there or deleted.

\* routes.py 43-84: override_signal from the request to its response, in one
\* step: the update, the row read back and its snapshot. The bodies carry a
\* vehicle_count or neither field.
LiveOverride ==
  /\ req = Idle
  /\ \E signal_id \in LiveIds :
       IF signal_id \notin DOMAIN signals
       THEN /\ last' = Response("override", signal_id, 404)
            /\ UNCHANGED << signals, history >>
       ELSE \E vehicle_count \in {None} \cup { Some(v) : v \in OverrideCounts },
               green_time \in {None} :
              /\ last' = Response("override", signal_id, 200)
              /\ IF DOMAIN OverrideUpdates(vehicle_count, green_time) = {}
                 THEN UNCHANGED << signals, history >>
                 ELSE /\ signals' = update_signal(signals, signal_id,
                                                  OverrideUpdates(vehicle_count, green_time))
                      /\ history' = Newest(record_history(history, signal_id,
                                                          signals'[signal_id].vehicle_count,
                                                          signals'[signal_id].green_time,
                                                          signals'[signal_id].density))
  /\ UNCHANGED << nextId, tpc, tsigs, tvc, req, nreq, npass, prior >>

\* routes.py 120-147: toggle_emergency from the request to its response.
LiveEmergency ==
  /\ req = Idle
  /\ \E signal_id \in LiveIds :
       IF signal_id \notin DOMAIN signals
       THEN /\ last' = Response("emergency", signal_id, 404)
            /\ UNCHANGED signals
       ELSE \E enable \in BOOLEAN :
              /\ signals' = update_signal(signals, signal_id,
                                          EmergencyKwargs(enable, signals[signal_id]))
              /\ last' = Response(IF enable THEN "emergency_on" ELSE "emergency_off",
                                  signal_id, 200)
  /\ UNCHANGED << history, nextId, tpc, tsigs, tvc, req, nreq, npass, prior >>

\* routes.py 231-237 and models.py 121-132: one connection, one commit.
LiveDelete ==
  /\ req = Idle
  /\ \E signal_id \in LiveIds :
       IF signal_id \in DOMAIN signals
       THEN /\ history' = Newest(delete_signal_history(history, signal_id))
            /\ signals' = delete_signal_row(signals, signal_id)
            /\ last' = Response("delete", signal_id, 200)
       ELSE /\ last' = Response("delete", signal_id, 404)
            /\ UNCHANGED << signals, history >>
  /\ UNCHANGED << nextId, tpc, tsigs, tvc, req, nreq, npass, prior >>

\* routes.py 96-107 for the signals of ids in turn, vcs[i] the count drawn for i.
RECURSIVE SimulateAll(_, _, _)
SimulateAll(store, ids, vcs) ==
  IF ids = << >> THEN store
  ELSE LET vc == vcs[Head(ids)]
       IN SimulateAll([ signals |-> update_signal(store.signals, Head(ids),
                                                  SimulatedCycle(vc)),
                        history |-> record_history(store.history, Head(ids), vc,
                                                   calculate_green_time(vc),
                                                   classify_density(vc)) ],
                      Tail(ids), vcs)

\* routes.py 87-109: simulate from the request to its response.
LiveSimulate ==
  /\ req = Idle
  /\ \E vcs \in [ LiveIds -> simulate_vehicle_count ] :
       LET after == SimulateAll([ signals |-> signals, history |-> history ],
                                SimulateToDo(get_all_signals(signals)), vcs)
       IN /\ signals' = after.signals
          /\ history' = Newest(after.history)
  /\ last' = Response("simulate", 0, 200)
  /\ UNCHANGED << nextId, tpc, tsigs, tvc, req, nreq, npass, prior >>

NextLive == LiveTicker \/ LiveOverride \/ LiveSimulate \/ LiveEmergency \/ LiveDelete

\* app.py 31-32, 96-97: the ticker is a thread of its own that sleeps and runs
\* its pass again, whatever the request handlers do.
SpecLive == InitLive /\ [][NextLive]_vars /\ WF_vars(LiveTicker)

\* ------------------------------------------------------------ properties
TypeOK ==
  /\ DOMAIN signals \subseteq Ids
  /\ Len(history) <= MaxHistory
  /\ tpc \in {"sleep", "loop", "history"}
  /\ nreq \in 0..MaxRequests
  /\ npass \in 0..MaxPasses

\* The ticker took a step: its position in the pass changed.
TickerStepped == tpc' # tpc \/ tsigs' # tsigs

\* C1: every signal that is not in emergency mode has current_phase equal to
\* determine_phase(countdown, green_time) of its own stored fields.
C1_PhaseFollowsCountdown ==
  \A s \in DOMAIN signals :
    ~ signals[s].emergency =>
      signals[s].current_phase
        = determine_phase(signals[s].countdown, signals[s].green_time)

\* C2: while a signal is stored as emergency, no step of the ticker changes
\* any of its fields or appends a snapshot for it.
C2_TickerLeavesEmergencyAlone ==
  [][ \A s \in DOMAIN signals :
        (signals[s].emergency /\ TickerStepped) =>
          /\ s \in DOMAIN signals'
          /\ signals'[s] = signals[s]
          /\ SelectSeq(history', LAMBDA h : h.signal_id = s)
               = SelectSeq(history, LAMBDA h : h.signal_id = s) ]_vars

\* C3: no stored signal pairs the green_time of one writer with the countdown
\* of another: a signal that is not in emergency mode never has a countdown
\* above the cycle length of its green_time.
C3_CountdownWithinCycle ==
  \A s \in DOMAIN signals :
    ~ signals[s].emergency =>
      signals[s].countdown <= get_cycle_length(signals[s].green_time)

\* C4: every stored signal has density = classify_density(vehicle_count).
C4_DensityFollowsCount ==
  \A s \in DOMAIN signals :
    signals[s].density = classify_density(signals[s].vehicle_count)

\* C4 witness: an override carrying both fields has been written, so that the
\* stored green_time is no longer the one of the stored vehicle_count.
C4_Witness ==
  /\ last.op = "override_update"
  /\ last.id \in DOMAIN signals
  /\ signals[last.id].vehicle_count \in OverrideCounts
  /\ signals[last.id].green_time \in OverrideGreens
  /\ signals[last.id].density = classify_density(signals[last.id].vehicle_count)

\* C5: every stored signal has green_time >= 1 and vehicle_count >= 0.
C5_PositiveGreenNonNegativeCount ==
  \A s \in DOMAIN signals :
    signals[s].green_time >= 1 /\ signals[s].vehicle_count >= 0

\* The snapshot a step appended (the last row of the history table after it).
Appended == history'[Len(history')]

\* The ticker wrote the running countdown of the signal at the head of its
\* list (lines 57-59) / wrote a new cycle for it (lines 41-55) / recorded the
\* new cycle (line 56).
TickerDecremented == tpc = "loop" /\ tsigs' = Tail(tsigs)
TickerRolledOver == tpc = "loop" /\ tpc' = "history"
TickerRecorded == tpc = "history" /\ tpc' # "history"

\* C6: a ticker step on a signal read as non-emergency with countdown minus
\* the tick interval > 0 stores that difference as countdown and
\* determine_phase of it as current_phase, and leaves vehicle_count,
\* green_time, density, emergency and the history table unchanged.
C6_DecrementFrame ==
  [][ (TickerDecremented /\ Head(tsigs).id \in DOMAIN signals) =>
        LET sig == Head(tsigs)
            new_countdown == sig.countdown - TICK_INTERVAL
        IN /\ new_countdown > 0
           /\ signals' = [ signals EXCEPT ![sig.id] =
                 [ @ EXCEPT !.countdown = new_countdown,
                            !.current_phase = determine_phase(new_countdown, sig.green_time) ] ]
           /\ history' = history ]_vars

\* C6 witness: the ticker has just taken a signal from countdown 8 to 5, which
\* is yellow, with no snapshot beyond the ones of start-up.
C6_Witness ==
  /\ last.op = "ticker_decrement"
  /\ last.id \in DOMAIN signals
  /\ signals[last.id].countdown = 5
  /\ signals[last.id].current_phase = "yellow"
  /\ ~ signals[last.id].emergency
  /\ history = SeedHistory(NumSeed)

\* C7: a ticker step on a signal read as non-emergency whose countdown minus
\* the tick interval is <= 0 draws v in 1..80, stores vehicle_count = v,
\* green_time = calculate_green_time(v), density = classify_density(v),
\* countdown = get_cycle_length(green_time) and current_phase = green, and
\* then appends exactly one snapshot with that v, green_time and density; a
\* step that only decrements is never taken on such a signal.
C7_RolloverIsNewCycle ==
  [][ /\ (tpc = "loop" /\ TickerStepped) =>
           (Head(tsigs).countdown - TICK_INTERVAL <= 0 <=> TickerRolledOver)
      /\ TickerRolledOver =>
           LET id == Head(tsigs).id
               v == tvc'
           IN /\ v \in RANDOM_LOW..RANDOM_HIGH
              /\ history' = history
              /\ tsigs' = tsigs
              /\ id \in DOMAIN signals =>
                   signals' = [ signals EXCEPT ![id] =
                     [ @ EXCEPT !.vehicle_count = v,
                                !.green_time = calculate_green_time(v),
                                !.density = classify_density(v),
                                !.countdown = get_cycle_length(calculate_green_time(v)),
                                !.current_phase = "green" ] ]
      /\ (tpc = "history" /\ ~ TickerRecorded) => (tvc' = tvc /\ tsigs' = tsigs)
      /\ TickerRecorded =>
           /\ signals' = signals
           /\ history' = Append(history,
                 [ signal_id     |-> Head(tsigs).id,
                   vehicle_count |-> tvc,
                   green_time    |-> calculate_green_time(tvc),
                   density       |-> classify_density(tvc) ]) ]_vars

\* C7 witness: the ticker has just recorded a new cycle, and the signal still
\* holds exactly what the snapshot says, at the start of its cycle.
C7_Witness ==
  /\ last.op = "ticker_record"
  /\ last.id \in DOMAIN signals
  /\ LET sig == signals[last.id]
         snap == history[Len(history)]
     IN /\ snap.signal_id = last.id
        /\ snap.vehicle_count = sig.vehicle_count /\ sig.vehicle_count >= RANDOM_LOW
        /\ snap.green_time = sig.green_time
        /\ snap.density = sig.density
        /\ sig.countdown = get_cycle_length(sig.green_time)
        /\ sig.current_phase = "green"

\* An override request carrying only green_time is in flight.
GreenOnly == req.op = "override" /\ req.vehicle_count = None /\ req.green_time # None

\* C8: an override carrying only green_time g sets green_time = g,
\* countdown = g + 10 and current_phase = green, leaves the other fields of
\* the signal and every other signal unchanged, and appends exactly one
\* snapshot with green_time g and the vehicle_count and density of the signal.
C8_OverrideGreenTime ==
  [][ GreenOnly =>
        LET g == req.green_time[1] IN
        /\ (req.pc = "update" /\ req' # req /\ req.id \in DOMAIN signals) =>
             /\ signals' = [ signals EXCEPT ![req.id] =
                   [ @ EXCEPT !.green_time = g, !.countdown = g + 10,
                              !.current_phase = "green" ] ]
             /\ history' = history
        /\ (req.pc = "final" /\ req' # req) =>
             (req'.op = "override" /\ signals' = signals /\ history' = history)
        /\ (req.pc = "record" /\ req' # req) =>
             /\ signals' = signals
             /\ Len(history') = Len(history) + 1
             /\ Appended.signal_id = req.id
             /\ Appended.green_time = g
             /\ req.id \in DOMAIN signals =>
                  /\ Appended.vehicle_count = signals[req.id].vehicle_count
                  /\ Appended.density = signals[req.id].density ]_vars

\* C9: the snapshot an override appends carries the vehicle_count, green_time
\* and density this same override wrote, and every override that wrote to a
\* signal goes on to append its snapshot.
C9_SnapshotOfOwnWrite ==
  [][ (req.op = "override" /\ req.pc \in {"final", "record"} /\ req' # req) =>
        LET wrote == OverrideUpdates(req.vehicle_count, req.green_time) IN
        /\ req.pc = "final" => req'.op = "override"
        /\ req.pc = "record" =>
             /\ Len(history') = Len(history) + 1
             /\ \A col \in DOMAIN wrote \cap {"vehicle_count", "green_time", "density"} :
                  Appended[col] = wrote[col] ]_vars

\* C10: from any state, enabling emergency on a signal gives emergency = true,
\* current_phase = green, countdown = 999 with every other field, every other
\* signal and the history as before, and enabling it a second time right
\* after gives the same signals and history again.
C10_EnableIdempotent ==
  \A s \in DOMAIN signals :
    LET store == [ signals |-> signals, history |-> history ]
        once == toggle_emergency(store, s, TRUE)
        twice == toggle_emergency(once, s, TRUE)
    IN /\ once.signals = [ signals EXCEPT ![s] =
             [ @ EXCEPT !.emergency = TRUE, !.current_phase = "green",
                        !.countdown = EMERGENCY_COUNTDOWN ] ]
       /\ once.history = history
       /\ twice = once

\* C10 witness: an emergency enable has just been written before any pass of
\* the ticker, and the stored row is the enabled one.
C10_Witness ==
  /\ last.op = "emergency_on"
  /\ last.id \in DOMAIN signals
  /\ npass = 0
  /\ signals[last.id].emergency
  /\ signals[last.id].countdown = EMERGENCY_COUNTDOWN
  /\ signals[last.id].current_phase = "green"
  /\ history = SeedHistory(NumSeed)

\* The signals and history after SetEmergency(s, true) followed by
\* SetEmergency(s, false), run one after the other on the current tables.
RoundTrip(s) ==
  toggle_emergency(toggle_emergency([ signals |-> signals, history |-> history ],
                                    s, TRUE),
                   s, FALSE)

\* C11: from any reachable state of a signal s, green_time overridden or not,
\* enabling and then disabling emergency leaves emergency = false,
\* green_time = calculate_green_time(vehicle_count),
\* countdown = get_cycle_length(green_time) and current_phase = green, with
\* vehicle_count and density as they were before the enable.
C11_EmergencyRoundTrip ==
  [] \A s \in DOMAIN signals :
       RoundTrip(s).signals[s]
         = [ signals[s] EXCEPT
               !.emergency = FALSE,
               !.green_time = calculate_green_time(signals[s].vehicle_count),
               !.countdown = get_cycle_length(calculate_green_time(signals[s].vehicle_count)),
               !.current_phase = "green" ]

\* C11 witness: an override has stored a green_time that is not the one of
\* the signal's vehicle count, and the round trip puts the computed one back.
C11_Witness ==
  /\ last = Response("override", last.id, 200)
  /\ last.id \in DOMAIN signals
  /\ signals[last.id].green_time \in OverrideGreens
  /\ signals[last.id].green_time # calculate_green_time(signals[last.id].vehicle_count)
  /\ RoundTrip(last.id).signals[last.id].green_time
       = calculate_green_time(signals[last.id].vehicle_count)

\* The emergency handler took a step: it answered or looked the signal up
\* (lines 123-132), or made its update (lines 134-147).
EmergencyStepped ==
  \/ req = Idle /\ nreq' # nreq /\ last'.op \in {"emergency", "emergency_start"}
  \/ req.op = "emergency" /\ req' # req

\* C12: no step of an emergency toggle, enable or disable, appends a history
\* snapshot or changes the vehicle_count or density of its signal, or any
\* field of any other signal.
C12_ToggleFrame ==
  [][ EmergencyStepped =>
        /\ history' = history
        /\ DOMAIN signals' = DOMAIN signals
        /\ \A s \in DOMAIN signals :
             /\ signals'[s].vehicle_count = signals[s].vehicle_count
             /\ signals'[s].density = signals[s].density
             /\ (req.op = "emergency" /\ s # req.id) => signals'[s] = signals[s]
             /\ req = Idle => signals'[s] = signals[s] ]_vars

\* C12 witness: a disable has just restarted the cycle of its signal while
\* another signal is in the middle of its own, and the history still holds
\* the snapshots of start-up only.
C12_Witness ==
  /\ last = Response("emergency_off", last.id, 200)
  /\ last.id \in DOMAIN signals
  /\ signals[last.id].countdown = get_cycle_length(signals[last.id].green_time)
  /\ \E o \in DOMAIN signals \ {last.id} :
       signals[o].countdown < get_cycle_length(signals[o].green_time)
  /\ history = SeedHistory(NumSeed)

\* The store raised while the ticker was handling the signal at the head of
\* its list: on its update, or on the snapshot of its new cycle.
TickerFailed == tpc \in {"loop", "history"} /\ last'.op = "ticker_error"

\* C13: when the store raises during the update or the snapshot of one signal
\* of a pass, the pass goes on: the signals read in that pass and not yet
\* handled are still there to be ticked before the ticker sleeps again.
C13_FailureIsolated ==
  [][ TickerFailed =>
        /\ tsigs' = Tail(tsigs)
        /\ tpc' = TickerAt(Tail(tsigs)) ]_vars

\* The store raised in a handler that had already written its signal.
HandlerFailed == req # Idle /\ req' = Idle /\ last'.status = 500

\* C14: when the store raises at a step of a rollover, an override or a
\* simulate-all step after the signal row was written, the failing step leaves
\* the signal as it was before the operation wrote it and the history
\* without a snapshot of the operation: the signal is never left
\* re-initialised without its snapshot.
C14_AllOrNothing ==
  [][ /\ (TickerFailed /\ tpc = "history" /\ prior.ticker # None) =>
           /\ Head(tsigs).id \in DOMAIN signals'
           /\ signals'[Head(tsigs).id] = prior.ticker[1]
           /\ history' = history
      /\ (HandlerFailed /\ req.op \in {"override", "simulate"} /\ prior.req # None) =>
           /\ SignalOf(req) \in DOMAIN signals'
           /\ signals'[SignalOf(req)] = prior.req[1]
           /\ history' = history ]_vars

\* A request for override, emergency toggle or delete has been taken up: the
\* handler parsed the body and looked the signal up; last'.id is the
\* signal_id of the body (0 when the body has none).
AddressedStart ==
  /\ req = Idle
  /\ nreq' # nreq
  /\ last'.op \in {"override", "override_start", "emergency", "emergency_start", "delete"}

\* C15: an override, emergency toggle or delete addressed to a signal id that
\* is not in the store is answered with not-found (404) and changes no signal
\* row and no history row; no further step of the handler follows.
C15_NotFoundNoChange ==
  [][ (AddressedStart /\ last'.id # 0 /\ last'.id \notin DOMAIN signals) =>
        /\ last'.status = 404
        /\ req' = Idle
        /\ signals' = signals
        /\ history' = history ]_vars

\* C15 witness: a delete of an id that was never handed out has just been
\* answered 404, with every seeded signal and snapshot still in the store.
C15_Witness ==
  /\ last = Response("delete", last.id, 404)
  /\ last.id \notin DOMAIN signals
  /\ DOMAIN signals = 1..NumSeed
  /\ history = SeedHistory(NumSeed)
  /\ nreq = 1

\* An override request was taken up whose body lacks signal_id (last'.id = 0),
\* or names a stored signal and carries neither vehicle_count nor green_time:
\* only then is the handler through with a stored signal at its first step.
OverrideMissingFields ==
  /\ req = Idle
  /\ nreq' # nreq
  /\ last'.op = "override"
  /\ req' = Idle
  /\ last'.id = 0 \/ last'.id \in DOMAIN signals

\* C16: an override request that lacks signal_id, or that names an existing
\* signal and supplies neither vehicle_count nor green_time, is answered with
\* an error status and changes neither the signals nor the history.
C16_MissingFieldsRejected ==
  [][ OverrideMissingFields =>
        /\ last'.status >= 400
        /\ signals' = signals
        /\ history' = history ]_vars

\* The snapshots of signal s in a history table, oldest first.
SnapshotsOf(log, s) == SelectSeq(log, LAMBDA h : h.signal_id = s)

IsPrefix(a, b) == Len(a) <= Len(b) /\ SubSeq(b, 1, Len(a)) = a

\* C17: the history is append-only. In every step that does not delete
\* signal s, the snapshots of s before the step are a prefix of its snapshots
\* after it, so that none is modified, reordered or removed; and a step that
\* removes the row of a signal removes every snapshot of that signal.
C17_AppendOnly ==
  [][ \A s \in Ids :
        IF s \in DOMAIN signals /\ s \notin DOMAIN signals'
        THEN SnapshotsOf(history', s) = << >>
        ELSE IsPrefix(SnapshotsOf(history, s), SnapshotsOf(history', s)) ]_vars

\* C17 witness: a signal has just been deleted together with its snapshots,
\* while another signal keeps the snapshot of start-up followed by the one of
\* a later cycle.
C17_Witness ==
  /\ last = Response("delete", last.id, 200)
  /\ last.id \notin DOMAIN signals
  /\ SnapshotsOf(history, last.id) = << >>
  /\ \E o \in DOMAIN signals :
       /\ Len(SnapshotsOf(history, o)) = 2
       /\ SnapshotsOf(history, o)[1] = SeedHistory(NumSeed)[o]

\* C18: for every vehicle count v of the range, an override to v stores
\* green_time 25 and density Low for v in 0..19, 45 and Medium for v in
\* 20..40, 70 and High for v > 40, records the same pair in its snapshot,
\* and no smaller count has a longer green time.
C18_TierTable ==
  last.op \in {"override_update", "override_final", "override"} =>
    LET v == signals[1].vehicle_count
        gt == signals[1].green_time
        density == signals[1].density
    IN /\ v \in 0..MaxCount
       /\ v \in 0..19 => (gt = 25 /\ density = "Low")
       /\ v \in 20..40 => (gt = 45 /\ density = "Medium")
       /\ v > 40 => (gt = 70 /\ density = "High")
       /\ \A u \in 0..v : calculate_green_time(u) <= gt
       /\ last.op = "override" =>
            /\ history[Len(history)].green_time = gt
            /\ history[Len(history)].density = density

\* C18 witness: the override to 40 vehicles, the last count of the middle
\* tier, has been answered with 45 seconds and Medium stored and recorded.
C18_Witness ==
  /\ last = Response("override", 1, 200)
  /\ signals[1].vehicle_count = 40
  /\ signals[1].green_time = 45
  /\ signals[1].density = "Medium"
  /\ history[Len(history)].vehicle_count = 40

\* The score of the spec for the row of a response: timing_score t, the
\* bonus of the phase and the penalty of the throughput, clamped to 0..100.
ScoreWith(t, row) ==
  LET bonus == IF row.vehicle_count > 40 /\ row.current_phase = "green" THEN 10
               ELSE IF row.vehicle_count < 10 /\ row.current_phase = "red" THEN 5
               ELSE 0
      penalty == IF row.vehicle_count > 50 /\ row.green_time < 45 THEN 20
                 ELSE IF row.vehicle_count > 30 /\ row.green_time < 25 THEN 15
                 ELSE 0
      sum == t + bonus - penalty
  IN IF sum < 0 THEN 0 ELSE IF sum > 100 THEN 100 ELSE sum

\* min and max of the stored green time and the ideal one of the count.
Shorter(row) == Min(row.green_time, calculate_green_time(row.vehicle_count))
Longer(row) == Max(row.green_time, calculate_green_time(row.vehicle_count))

\* C19 as stated: for every vehicle count 0..MaxCount, green time
\* 1..MaxGreen and phase, the efficiency returned is the clamped score whose
\* timing_score is 100 * min / max rounded to the nearest integer (either
\* neighbour at a tie), and it lies in 0..100.
C19_EfficiencyRounded ==
  last.op = "one_signal" /\ last.status = 200 =>
    LET row == signals[last.id] IN
    /\ last.efficiency \in 0..100
    /\ \E t \in 0..100 :
         /\ 2 * (100 * Shorter(row) - t * Longer(row)) <= Longer(row)
         /\ 2 * (t * Longer(row) - 100 * Shorter(row)) <= Longer(row)
         /\ last.efficiency = ScoreWith(t, row)

\* C19 amended: the same with timing_score the integer part of
\* 100 * min / max (the quotient rounded down), and the result in 0..100.
C19_EfficiencyTruncated ==
  last.op = "one_signal" /\ last.status = 200 =>
    LET row == signals[last.id] IN
    /\ last.efficiency \in 0..100
    /\ \E t \in 0..100 :
         /\ t * Longer(row) <= 100 * Shorter(row)
         /\ 100 * Shorter(row) < (t + 1) * Longer(row)
         /\ last.efficiency = ScoreWith(t, row)

\* C19 witness: 60 vehicles on a green time of 26 in the green phase: the
\* quotient 2600 / 70 = 37.1 gives 37, plus 10 for the phase, minus 20 for
\* the throughput.
C19_Witness ==
  /\ last.op = "one_signal" /\ last.status = 200
  /\ signals[last.id].vehicle_count = 60
  /\ signals[last.id].green_time = 26
  /\ signals[last.id].current_phase = "green"
  /\ last.efficiency = 27
\* C20: with a tick interval of 3 and only the ticker acting, a signal goes
\* through green, then yellow, then red between two starts of a cycle, each
\* for at least one pass: a cycle starts in green, a pass that lets the
\* countdown run keeps the phase or moves it from green to yellow or from
\* yellow to red, no such pass happens in red, and a new cycle starts only
\* from red. This holds for the cycle lengths 35, 55 and 80 and for g + 10
\* after an override of the green time to g >= 1.
C20_CycleOrder ==
  [][ LET id == Head(tsigs).id
      IN /\ TickerDecremented =>
              << signals[id].current_phase, signals'[id].current_phase >>
                \in { << "green", "green" >>, << "green", "yellow" >>,
                      << "yellow", "yellow" >>, << "yellow", "red" >> }
         /\ TickerRolledOver =>
              /\ signals[id].current_phase = "red"
              /\ signals'[id].current_phase = "green"
              /\ signals'[id].countdown \in {35, 55, 80} ]_vars

\* The shortest cycle has run out: after an override of the green time to 1
\* the ticker has gone 11, 8, 5, 2 and started the next cycle.
C20_Witness ==
  /\ last = Step("ticker_rollover", 1)
  /\ Len(history) = 2
  /\ history[2].green_time = 1
  /\ prior.ticker # None
  /\ prior.ticker[1].countdown = 2
  /\ prior.ticker[1].current_phase = "red"
  /\ signals[1].current_phase = "green"

\* C21: in every reachable state every snapshot of the history belongs to a
\* signal that exists; no snapshot is appended for a signal deleted after
\* the ticker, simulate-all or an override read it.
C21_SnapshotsOfLiveSignals ==
  \A i \in 1..Len(history) : history[i].signal_id \in DOMAIN signals

\* C22: under weak fairness of the ticker and with no store call raising,
\* every signal that stays there and stays out of emergency reaches the end
\* of a cycle over and over (the ticker starts a new cycle and records its
\* snapshot); and the ticker begins pass after pass for ever, also after a
\* pass that raised.
NoFailure == last.op # "ticker_error"
Kept(s) == s \in DOMAIN signals /\ signals[s].emergency = FALSE
Boundary(s) == last = Step("ticker_record", s)
PassBegun == last = Step("ticker_read", 0) \/ last = Step("ticker_error", 0)

C22_CyclesForEver ==
  /\ \A s \in LiveIds : ([]NoFailure /\ []Kept(s)) => []<>Boundary(s)
  /\ []<>PassBegun

\* A request that starts the cycle of s afresh has been answered: an
\* override, a simulate-all or an emergency toggle.
Restarted(s) ==
  \/ last = Response("override", s, 200)
  \/ last = Response("simulate", 0, 200)
  \/ last = Response("emergency_on", s, 200)
  \/ last = Response("emergency_off", s, 200)

\* C22 as it holds: the same, for every such signal whose cycle, from some
\* time on, no request starts afresh (requests that keep coming keep the
\* countdown from running out).
C22_CyclesForEverUnlessRestarted ==
  /\ \A s \in LiveIds :
       ([]NoFailure /\ []Kept(s) /\ <>[]~Restarted(s)) => []<>Boundary(s)
  /\ []<>PassBegun

\* The ticker has ended a cycle of signal 1 and recorded the new one.
C22_Witness ==
  /\ last = Step("ticker_record", 1)
  /\ Kept(1)
  /\ tpc = "sleep"
  /\ signals[1].current_phase = "green"
  /\ signals[1].countdown = get_cycle_length(signals[1].green_time)
  /\ history[Len(history)].signal_id = 1
  /\ history[Len(history)].vehicle_count = signals[1].vehicle_count

====
